---- MODULE Spec2Model ----
(***************************************************************************)
(* Model of src/twentyPlayer/main.cpp: the PluginHost audio callback that  *)
(* turns the beat-addressed melody table into sample-accurate MIDI events, *)
(* together with the device lifecycle notifications.                       *)
(*                                                                         *)
(* The code computes beats in IEEE-754 binary64.  Every double that the    *)
(* callback can produce from the inputs of this model is an integer        *)
(* multiple of 2^-70 (the smallest non-zero quotient position/samplesPer-  *)
(* Beat is above 2^-16, so its unit in the last place is at least 2^-68),  *)
(* so a double is held as its exact value scaled by 2^70, a natural number *)
(* written in NLimbs limbs of LimbBits bits (TLC integers are 32 bit), and *)
(* every arithmetic operation rounds its exact result to 53 significant    *)
(* bits, ties to even, as the hardware does.                               *)
(***************************************************************************)
EXTENDS Integers, Naturals, Sequences, FiniteSets, TLC

\* ------------------------------------------------------------------------
\* Multi-limb naturals (little endian)
\* ------------------------------------------------------------------------
LimbBits == 14
LimbBase == 16384
NLimbs == 7
FracLimbs == 5
MantissaBits == 53

Limbs == 1..NLimbs

Pow2Table == <<1, 2, 4, 8, 16, 32, 64, 128, 256, 512, 1024, 2048, 4096, 8192, 16384>>

Pow2(k) == Pow2Table[k + 1]

\* the limb at index i, zero outside the number
LimbAt(A, i) == IF i \in Limbs THEN A[i] ELSE 0

\* the number whose limb i is F(i)
BigMake(F(_)) == <<F(1), F(2), F(3), F(4), F(5), F(6), F(7)>>

\* a machine integer 0 <= k < 2^28 at limbs at + 1 and at + 2, i.e. k * 2^(LimbBits * at)
BigOfInt(k, at) ==
    BigMake(LAMBDA i : IF i = at + 1 THEN k % LimbBase
                       ELSE IF i = at + 2 THEN k \div LimbBase
                       ELSE 0)

ToBig(k) == BigOfInt(k, 0)

BigIsZero(A) == \A i \in Limbs : A[i] = 0

\* index of the highest non-zero limb at or below i, 0 for zero
RECURSIVE TopLimbFrom(_, _)
TopLimbFrom(A, i) == IF i = 0 THEN 0
                     ELSE IF A[i] # 0 THEN i
                     ELSE TopLimbFrom(A, i - 1)

TopLimb(A) == TopLimbFrom(A, NLimbs)

\* number of significant bits of a limb value 0 <= v < LimbBase
RECURSIVE BitLenFrom(_, _)
BitLenFrom(v, b) == IF v < Pow2(b) THEN b ELSE BitLenFrom(v, b + 1)

SmallBitLen(v) == BitLenFrom(v, 0)

BigBitLen(A) == IF TopLimb(A) = 0 THEN 0
                ELSE (TopLimb(A) - 1) * LimbBits + SmallBitLen(A[TopLimb(A)])

\* -1, 0, 1 as A <, =, > B, deciding at the highest limb at or below i that differs
RECURSIVE CmpFrom(_, _, _)
CmpFrom(A, B, i) == IF i = 0 THEN 0
                    ELSE IF A[i] < B[i] THEN -1
                    ELSE IF A[i] > B[i] THEN 1
                    ELSE CmpFrom(A, B, i - 1)

BigCmp(A, B) == CmpFrom(A, B, NLimbs)

\* limbs i.. of A + B + c
RECURSIVE AddFrom(_, _, _, _)
AddFrom(A, B, i, c) ==
    IF i > NLimbs THEN <<>>
    ELSE <<(A[i] + B[i] + c) % LimbBase>>
         \o AddFrom(A, B, i + 1, (A[i] + B[i] + c) \div LimbBase)

BigAdd(A, B) == AddFrom(A, B, 1, 0)

\* limbs i.. of A - B - c (A >= B)
RECURSIVE SubFrom(_, _, _, _)
SubFrom(A, B, i, c) ==
    IF i > NLimbs THEN <<>>
    ELSE <<(A[i] - B[i] - c + LimbBase) % LimbBase>>
         \o SubFrom(A, B, i + 1, IF A[i] - B[i] - c < 0 THEN 1 ELSE 0)

BigSub(A, B) == SubFrom(A, B, 1, 0)

\* limbs i.. of A * k + c, 0 <= k < 2^16
RECURSIVE MulFrom(_, _, _, _)
MulFrom(A, k, i, c) ==
    IF i > NLimbs THEN <<>>
    ELSE <<(A[i] * k + c) % LimbBase>>
         \o MulFrom(A, k, i + 1, (A[i] * k + c) \div LimbBase)

BigMulSmall(A, k) == MulFrom(A, k, 1, 0)

\* limbs i..1 of the quotient of A / k, 0 < k < 2^16, followed by the
\* remainder; r is the remainder carried down from the limbs above i
RECURSIVE DivFrom(_, _, _, _)
DivFrom(A, k, i, r) ==
    IF i = 0 THEN <<r>>
    ELSE DivFrom(A, k, i - 1, (r * LimbBase + A[i]) % k)
         \o <<(r * LimbBase + A[i]) \div k>>

\* <<remainder, quotient limb 1, ..., quotient limb NLimbs>>
BigDivMod(A, k) == DivFrom(A, k, NLimbs, 0)

\* floor(A / 2^d), d = LimbBits * dl + db
ShiftRightLimb(A, dl, db, i) ==
    (LimbAt(A, i + dl) \div Pow2(db))
    + (LimbAt(A, i + dl + 1) % Pow2(db)) * Pow2(LimbBits - db)

BigShiftRight(A, d) ==
    BigMake(LAMBDA i : ShiftRightLimb(A, d \div LimbBits, d % LimbBits, i))

\* A * 2^d (the product fits in NLimbs limbs)
ShiftLeftLimb(A, dl, db, i) ==
    (LimbAt(A, i - dl) % Pow2(LimbBits - db)) * Pow2(db)
    + (LimbAt(A, i - dl - 1) \div Pow2(LimbBits - db))

BigShiftLeft(A, d) ==
    BigMake(LAMBDA i : ShiftLeftLimb(A, d \div LimbBits, d % LimbBits, i))

\* ------------------------------------------------------------------------
\* IEEE-754 binary64 values and operations
\* ------------------------------------------------------------------------

\* The exact natural M (scaled by 2^70), with sticky telling that the real
\* value lies strictly between M and M + 1, rounded to the nearest value of
\* 53 significant bits, ties to even.
RoundUp(M, d, sticky) ==
    /\ BigShiftRight(M, d - 1)[1] % 2 = 1
    /\ \/ sticky
       \/ BigShiftLeft(BigShiftRight(M, d - 1), d - 1) # M
       \/ BigShiftRight(M, d)[1] % 2 = 1

RoundAt(M, d, sticky) ==
    IF d <= 0 THEN M
    ELSE IF ~sticky /\ BigShiftLeft(BigShiftRight(M, d), d) = M THEN M
    ELSE IF RoundUp(M, d, sticky)
         THEN BigShiftLeft(BigAdd(BigShiftRight(M, d), ToBig(1)), d)
         ELSE BigShiftLeft(BigShiftRight(M, d), d)

RoundNearestEven(M, sticky) == RoundAt(M, BigBitLen(M) - MantissaBits, sticky)

Double(neg, mag) == [neg |-> neg /\ ~BigIsZero(mag), mag |-> mag]

\* the double of a machine integer (exact below 2^53)
DFromInt(k) == Double(FALSE, BigOfInt(k, FracLimbs))

\* the double literal k / 2 (0.0, 0.5, 1.0, 1.5, ...)
DHalves(k) == Double(FALSE, BigShiftRight(DFromInt(k).mag, 1))

DNeg(x) == Double(~x.neg, x.mag)

\* x < y
DLess(x, y) ==
    IF x.neg /\ ~y.neg THEN TRUE
    ELSE IF ~x.neg /\ y.neg THEN FALSE
    ELSE IF x.neg THEN BigCmp(x.mag, y.mag) = 1
    ELSE BigCmp(x.mag, y.mag) = -1

\* x >= y
DGeq(x, y) == ~DLess(x, y)

\* x + y
DAdd(x, y) ==
    IF x.neg = y.neg
    THEN Double(x.neg, RoundNearestEven(BigAdd(x.mag, y.mag), FALSE))
    ELSE IF BigCmp(x.mag, y.mag) >= 0
         THEN Double(x.neg, RoundNearestEven(BigSub(x.mag, y.mag), FALSE))
         ELSE Double(y.neg, RoundNearestEven(BigSub(y.mag, x.mag), FALSE))

\* x - y
DSub(x, y) == DAdd(x, DNeg(y))

\* x * k for a double k whose value is a natural number below 2^16
DMul(x, k) == Double(x.neg, RoundNearestEven(BigMulSmall(x.mag, k), FALSE))

\* a / k for the doubles of a natural a < 2^28 and of a natural 0 < k < 2^16
DDiv(a, k) ==
    LET qr == BigDivMod(BigOfInt(a, FracLimbs), k)
    IN  Double(FALSE, RoundNearestEven(Tail(qr), Head(qr) # 0))

\* std::fmod(x, m) for x >= 0 and a natural m: exact, the integer part of x
\* reduced modulo m under the unchanged fraction
DFmod(x, m) ==
    LET ip == x.mag[FracLimbs + 1] + LimbBase * x.mag[FracLimbs + 2]
    IN  Double(FALSE, BigMake(LAMBDA i : IF i <= FracLimbs THEN x.mag[i]
                                         ELSE IF i = FracLimbs + 1 THEN ip % m
                                         ELSE 0))

\* static_cast<int>(x): truncation toward zero
DToInt(x) ==
    LET ip == x.mag[FracLimbs + 1] + LimbBase * x.mag[FracLimbs + 2]
    IN  IF x.neg THEN 0 - ip ELSE ip

\* ------------------------------------------------------------------------
\* Melody table
\* ------------------------------------------------------------------------

\* struct Note {pitch, startBeat, duration, velocity}: beats given in halves
\* (every beat of the table is a multiple of 0.5), velocity in tenths
Note(pitch, startHalves, durationHalves, velocity) ==
    [pitch |-> pitch, startBeat |-> DHalves(startHalves),
     duration |-> DHalves(durationHalves), velocity |-> velocity]

melody == << Note(60, 0, 1, 8),
             Note(64, 1, 1, 8),
             Note(67, 2, 1, 8),
             Note(72, 3, 2, 9),
             Note(67, 5, 1, 7),
             Note(64, 6, 1, 7),
             Note(60, 7, 3, 8) >>

melodySize == Len(melody)

\* ------------------------------------------------------------------------
\* Bounds of the model
\* ------------------------------------------------------------------------
MaxPosition == 231000
MaxCallbacks == 6

\* longest duration, in half beats, of the notes of the one-note tables
MaxDurationHalves == 12

\* sample rates a device reports, and the sizes of the buffers it delivers
SampleRates == {44100, 48000}
BufferSizes == {512, 11000, 98738, 110250}

\* the buffers delivered to the one-note tables: a half and a tenth of a cycle
NoteBufferSizes == {11025, 55125}

\* ------------------------------------------------------------------------
\* State
\* ------------------------------------------------------------------------
VARIABLES
    table,              \* the event table the callback iterates (melody)
    positionInSamples,  \* PluginHost::positionInSamples
    sampleRate,         \* PluginHost::sampleRate (a double of natural value)
    bpm,                \* PluginHost::bpm
    samplesPerBeat,     \* PluginHost::samplesPerBeat (a double of natural value)
    pluginPrepared,     \* the plugin is between prepareToPlay and releaseResources
    deviceRunning,      \* the device is between about-to-start and stopped
    reportedRate,       \* the sample rate the device reported last, 0 before the first
    midiBuffer,         \* the queue the latest callback handed to processBlock
    block,              \* what the latest callback was given and did
    numCallbacks,       \* callbacks delivered so far
    delivered,          \* samples delivered so far
    cycleStart,         \* position where the observed loop cycle began, -1 if none
    noteOnCount,        \* per note, NoteOns queued since cycleStart
    noteOffCount,       \* per note, NoteOffs queued since cycleStart
    engine,             \* what plugin->processBlock was given by the latest callback
    pc,                 \* where the callback in flight stands, "idle" between callbacks
    remembered,         \* one earlier callback kept for comparison, or NoBlock
    stream,             \* the notes sounding after the events dispatched so far
    app                 \* MyHostApp: its position and what it owns

\* the state of the PluginHost and of the engine it drives
hostVars == << table, positionInSamples, sampleRate, bpm, samplesPerBeat, pluginPrepared,
               deviceRunning, reportedRate, midiBuffer, block, numCallbacks,
               delivered, cycleStart, noteOnCount, noteOffCount, engine >>

\* the place in a callback taken step by step, the observations made of the
\* callbacks, and the application around the host
others == << pc, remembered, stream, app >>

vars == << table, positionInSamples, sampleRate, bpm, samplesPerBeat, pluginPrepared,
           deviceRunning, reportedRate, midiBuffer, block, numCallbacks,
           delivered, cycleStart, noteOnCount, noteOffCount, engine, pc, remembered,
           stream, app >>

\* ------------------------------------------------------------------------
\* PluginHost
\* ------------------------------------------------------------------------

\* (sampleRate * 60.0) / bpm; the quotient is a natural number for the rates
\* and the tempo of this model
SamplesPerBeat(sr, tempo) == (sr * 60) \div tempo

\* double loopLength = 5.0
loopLength == 5

loopLengthBeats == DFromInt(loopLength)

DZero == DFromInt(0)

\* one loop cycle in samples
LoopSamples(spb) == loopLength * spb

NoEvents(tbl) == [i \in 1..Len(tbl) |-> 0]

NoBlock == [position |-> 0, numSamples |-> 0, samplesPerBeat |-> 0, rate |-> 0,
            dropped |-> <<>>, prepared |-> FALSE, processBlockCalls |-> 0,
            positionAtProcess |-> 0]

\* nothing handed to the engine yet
NoEngine == [calls |-> 0, midi |-> <<>>, bufferSamples |-> 0, bufferCleared |-> FALSE,
             position |-> 0]

\* no note sounding, nothing dispatched
NoStream == [sounding |-> {}, cut |-> {}, pending |-> {}]

\* no callback kept for comparison
NoneRemembered == [position |-> 0, numSamples |-> 0, samplesPerBeat |-> 0, midi |-> <<>>]

\* MyHostApp after initialise has registered the host, lines 198-206
AppRunning == [pc |-> "running", plugin |-> TRUE, host |-> TRUE, window |-> TRUE,
               registered |-> TRUE, deviceOpen |-> TRUE, failed |-> FALSE,
               released |-> <<>>]

\* PluginHost(plugin, 44100.0), lines 34-40 and 199
InitHost(tbl) ==
    /\ table = tbl
    /\ positionInSamples = 0
    /\ sampleRate = 44100
    /\ bpm = 120
    /\ samplesPerBeat = SamplesPerBeat(44100, 120)
    /\ pluginPrepared = FALSE
    /\ deviceRunning = FALSE
    /\ reportedRate = 0
    /\ midiBuffer = <<>>
    /\ block = NoBlock
    /\ numCallbacks = 0
    /\ delivered = 0
    /\ cycleStart = -1
    /\ noteOnCount = NoEvents(tbl)
    /\ noteOffCount = NoEvents(tbl)
    /\ engine = NoEngine
    /\ pc = "idle"
    /\ remembered = NoneRemembered
    /\ stream = NoStream

Init == InitHost(melody) /\ app = AppRunning

\* addEvent gone wrong: the event goes before the queued events of its own
\* sample position
RECURSIVE AddEventBeforeEqual(_, _)
AddEventBeforeEqual(buf, ev) ==
    IF buf = <<>> THEN <<ev>>
    ELSE IF Head(buf).sampleOffset < ev.sampleOffset
         THEN <<Head(buf)>> \o AddEventBeforeEqual(Tail(buf), ev)
         ELSE <<ev>> \o buf

\* addEvent gone wrong: the event goes to the end of the queue
AddEventAtEnd(buf, ev) == Append(buf, ev)

\* addEvent gone wrong: an event equal in position, kind, pitch and velocity to
\* a queued one is merged with it
RECURSIVE AddEventMerging(_, _)
AddEventMerging(buf, ev) ==
    IF buf = <<>> THEN <<ev>>
    ELSE IF /\ Head(buf).sampleOffset = ev.sampleOffset
            /\ Head(buf).kind = ev.kind
            /\ Head(buf).pitch = ev.pitch
            /\ Head(buf).velocity = ev.velocity
         THEN buf
         ELSE IF Head(buf).sampleOffset <= ev.sampleOffset
              THEN <<Head(buf)>> \o AddEventMerging(Tail(buf), ev)
              ELSE <<ev>> \o buf

\* juce::MidiBuffer::addEvent: the event goes after every queued event whose
\* sample position is not greater than its own
RECURSIVE AddEvent(_, _)
AddEvent(buf, ev) ==
    IF buf = <<>> THEN <<ev>>
    ELSE IF Head(buf).sampleOffset <= ev.sampleOffset
         THEN <<Head(buf)>> \o AddEvent(Tail(buf), ev)
         ELSE <<ev>> \o buf

\* the test gone wrong: the wrapped window tested like the plain one
InBlockWrapConjoined(beat, loopStartBeat, loopEndBeat, wrapped) ==
    \/ ~wrapped /\ DGeq(beat, loopStartBeat) /\ DLess(beat, loopEndBeat)
    \/ wrapped /\ (DGeq(beat, loopStartBeat) /\ DLess(beat, loopEndBeat))

\* the test of lines 68-69 and 83-84
InBlock(beat, loopStartBeat, loopEndBeat, wrapped) ==
    \/ ~wrapped /\ DGeq(beat, loopStartBeat) /\ DLess(beat, loopEndBeat)
    \/ wrapped /\ (DGeq(beat, loopStartBeat) \/ DLess(beat, loopEndBeat))

\* lines 72 and 87
AddLoopIfNegative(beatOffset) ==
    IF DLess(beatOffset, DZero) THEN DAdd(beatOffset, loopLengthBeats) ELSE beatOffset

\* beatOffset of lines 71-72 and 86-87
BeatOffset(beat, loopStartBeat) == AddLoopIfNegative(DSub(beat, loopStartBeat))

\* sampleOffset gone wrong: counted from the loop start, not the buffer start
SampleOffsetFromLoopStart(beat, loopStartBeat, spb) == DToInt(DMul(beat, spb))

\* sampleOffset of lines 73 and 88
SampleOffset(beat, loopStartBeat, spb) ==
    DToInt(DMul(BeatOffset(beat, loopStartBeat), spb))

\* the guard gone wrong: offset 0 refused
OffsetInBufferAboveZero(sampleOffset, numSamples) ==
    sampleOffset > 0 /\ sampleOffset < numSamples

\* the guard of lines 74 and 89
OffsetInBuffer(sampleOffset, numSamples) ==
    sampleOffset >= 0 /\ sampleOffset < numSamples

\* line 82
SubtractLoopIfPast(noteOffBeat) ==
    IF DGeq(noteOffBeat, loopLengthBeats) THEN DSub(noteOffBeat, loopLengthBeats)
    ELSE noteOffBeat

\* noteOffBeat of lines 81-82
NoteOffBeat(n) == SubtractLoopIfPast(DAdd(n.startBeat, n.duration))

\* juce::MidiMessage::noteOn(1, n.pitch, n.velocity); note is the table index
NoteOnMessage(tbl, i) ==
    [kind |-> "noteOn", pitch |-> tbl[i].pitch, velocity |-> tbl[i].velocity, note |-> i]

\* juce::MidiMessage::noteOff(1, n.pitch)
NoteOffMessage(tbl, i) ==
    [kind |-> "noteOff", pitch |-> tbl[i].pitch, velocity |-> 0, note |-> i]

\* lines 74-77 and 89-92: st is the queue and the offsets dropped so far
PutEvent(st, msg, sampleOffset, numSamples) ==
    IF OffsetInBuffer(sampleOffset, numSamples)
    THEN [st EXCEPT !.midi =
             AddEvent(st.midi, [sampleOffset |-> sampleOffset, kind |-> msg.kind,
                                pitch |-> msg.pitch, velocity |-> msg.velocity,
                                note |-> msg.note])]
    ELSE [st EXCEPT !.dropped = Append(st.dropped, sampleOffset)]

\* one event of the loop body, lines 68-78 or 83-93
ScheduleEvent(st, msg, beat, loopStartBeat, loopEndBeat, wrapped, spb, numSamples) ==
    IF InBlock(beat, loopStartBeat, loopEndBeat, wrapped)
    THEN PutEvent(st, msg, SampleOffset(beat, loopStartBeat, spb), numSamples)
    ELSE st

\* the loop of lines 62-94 from note i on
RECURSIVE ScheduleFrom(_, _, _, _, _, _, _, _)
ScheduleFrom(st, tbl, i, loopStartBeat, loopEndBeat, wrapped, spb, numSamples) ==
    IF i > Len(tbl) THEN st
    ELSE ScheduleFrom(
            ScheduleEvent(
                ScheduleEvent(st, NoteOnMessage(tbl, i), tbl[i].startBeat,
                              loopStartBeat, loopEndBeat, wrapped, spb, numSamples),
                NoteOffMessage(tbl, i), NoteOffBeat(tbl[i]),
                loopStartBeat, loopEndBeat, wrapped, spb, numSamples),
            tbl, i + 1, loopStartBeat, loopEndBeat, wrapped, spb, numSamples)

\* lines 51-57
BlockStartBeat(position, spb) == DDiv(position, spb)
BlockEndBeat(position, numSamples, spb) == DDiv(position + numSamples, spb)
\* line 56 gone wrong: the start beat of the block is not taken modulo the loop
LoopStartBeatUnwrapped(position, spb) == BlockStartBeat(position, spb)
LoopStartBeat(position, spb) == DFmod(BlockStartBeat(position, spb), loopLength)
LoopEndBeat(position, numSamples, spb) ==
    DFmod(BlockEndBeat(position, numSamples, spb), loopLength)

\* line 60
Wrapped(loopStartBeat, loopEndBeat) == DLess(loopEndBeat, loopStartBeat)

ScheduleWindow(tbl, loopStartBeat, loopEndBeat, spb, numSamples) ==
    ScheduleFrom([midi |-> <<>>, dropped |-> <<>>], tbl, 1, loopStartBeat, loopEndBeat,
                 Wrapped(loopStartBeat, loopEndBeat), spb, numSamples)

\* lines 49-94: the queue built for the buffer and the offsets dropped
Schedule(tbl, position, numSamples, spb) ==
    ScheduleWindow(tbl, LoopStartBeat(position, spb),
                   LoopEndBeat(position, numSamples, spb), spb, numSamples)

\* line 107 gone wrong: = for +=
AdvancePositionAssigned(position, numSamples) == numSamples

\* line 107
AdvancePosition(position, numSamples) == position + numSamples

\* per note, the events of one kind in a queue
CountOf(tbl, midi, kind) ==
    [i \in 1..Len(tbl) |->
        Cardinality({k \in 1..Len(midi) : midi[k].kind = kind /\ midi[k].note = i})]

\* the observed cycle is over once a whole loop of samples has gone by
CycleOver == cycleStart # -1 /\ positionInSamples - cycleStart >= LoopSamples(samplesPerBeat)

\* Lines 42-108.  When no loop cycle is under observation, the observation of
\* one may start at this buffer (observe).
AudioDeviceIOCallbackWithContext(numSamples) ==
    /\ deviceRunning
    /\ numCallbacks < MaxCallbacks
    /\ positionInSamples + numSamples <= MaxPosition
    /\ \E sched \in {Schedule(table, positionInSamples, numSamples, samplesPerBeat)},
          going \in {cycleStart # -1 /\ ~CycleOver},
          observe \in BOOLEAN :
           /\ observe => ~going
           /\ midiBuffer' = sched.midi
           /\ block' = [position |-> positionInSamples,
                        numSamples |-> numSamples,
                        samplesPerBeat |-> samplesPerBeat,
                        rate |-> reportedRate,
                        dropped |-> sched.dropped,
                        prepared |-> pluginPrepared,
                        processBlockCalls |-> 1,
                        positionAtProcess |-> positionInSamples]
           /\ cycleStart' = IF going THEN cycleStart
                            ELSE IF observe THEN positionInSamples ELSE -1
           /\ noteOnCount' =
                IF going
                THEN [i \in 1..Len(table) |->
                         noteOnCount[i] + CountOf(table, sched.midi, "noteOn")[i]]
                ELSE IF observe THEN CountOf(table, sched.midi, "noteOn")
                ELSE NoEvents(table)
           /\ noteOffCount' =
                IF going
                THEN [i \in 1..Len(table) |->
                         noteOffCount[i] + CountOf(table, sched.midi, "noteOff")[i]]
                ELSE IF observe THEN CountOf(table, sched.midi, "noteOff")
                ELSE NoEvents(table)
           /\ engine' = [calls |-> 1, midi |-> sched.midi, bufferSamples |-> numSamples,
                         bufferCleared |-> TRUE, position |-> positionInSamples]
    /\ positionInSamples' = AdvancePosition(positionInSamples, numSamples)
    /\ numCallbacks' = numCallbacks + 1
    /\ delivered' = delivered + numSamples
    /\ UNCHANGED << table, sampleRate, bpm, samplesPerBeat, pluginPrepared,
                    deviceRunning, reportedRate >>

\* lines 110-115 gone wrong: samplesPerBeat is not recomputed
AudioDeviceAboutToStartStale(rate) ==
    /\ ~deviceRunning
    /\ deviceRunning' = TRUE
    /\ reportedRate' = rate
    /\ sampleRate' = rate
    /\ pluginPrepared' = TRUE
    /\ UNCHANGED << table, positionInSamples, bpm, samplesPerBeat, midiBuffer, block,
                    numCallbacks, delivered, cycleStart, noteOnCount, noteOffCount,
                    engine, pc, remembered, stream, app >>

\* Lines 110-115; rate is device->getCurrentSampleRate().
AudioDeviceAboutToStart(rate) ==
    /\ ~deviceRunning
    /\ deviceRunning' = TRUE
    /\ reportedRate' = rate
    /\ sampleRate' = rate
    /\ samplesPerBeat' = SamplesPerBeat(rate, bpm)
    /\ pluginPrepared' = TRUE
    /\ IF SamplesPerBeat(rate, bpm) = samplesPerBeat
       THEN UNCHANGED << cycleStart, noteOnCount, noteOffCount >>
       ELSE /\ cycleStart' = -1
            /\ noteOnCount' = NoEvents(table)
            /\ noteOffCount' = NoEvents(table)
    /\ UNCHANGED << table, positionInSamples, bpm, midiBuffer, block, numCallbacks,
                    delivered, engine, pc, remembered, stream, app >>

\* lines 117-120 gone wrong: the position is rewound when the device stops
AudioDeviceStoppedRewound ==
    /\ deviceRunning
    /\ deviceRunning' = FALSE
    /\ pluginPrepared' = FALSE
    /\ positionInSamples' = 0
    /\ UNCHANGED << table, sampleRate, bpm, samplesPerBeat,
                    reportedRate, midiBuffer, block, numCallbacks, delivered,
                    cycleStart, noteOnCount, noteOffCount, engine, pc, remembered,
                    stream, app >>

\* Lines 117-120
AudioDeviceStopped ==
    /\ deviceRunning
    /\ deviceRunning' = FALSE
    /\ pluginPrepared' = FALSE
    /\ UNCHANGED << table, positionInSamples, sampleRate, bpm, samplesPerBeat,
                    reportedRate, midiBuffer, block, numCallbacks, delivered,
                    cycleStart, noteOnCount, noteOffCount, engine, pc, remembered,
                    stream, app >>

\* ------------------------------------------------------------------------
\* The buffer callback step by step
\* ------------------------------------------------------------------------

\* lines 49-94 gone wrong: the position is advanced before the beats are taken
CallbackScheduleAdvanced(numSamples) ==
    /\ pc = "idle"
    /\ deviceRunning
    /\ numCallbacks < MaxCallbacks
    /\ positionInSamples + 2 * numSamples <= MaxPosition
    /\ \E sched \in {Schedule(table, positionInSamples + numSamples, numSamples,
                              samplesPerBeat)} :
           /\ midiBuffer' = sched.midi
           /\ block' = [position |-> positionInSamples,
                        numSamples |-> numSamples,
                        samplesPerBeat |-> samplesPerBeat,
                        rate |-> reportedRate,
                        dropped |-> sched.dropped,
                        prepared |-> pluginPrepared,
                        processBlockCalls |-> 0,
                        positionAtProcess |-> 0]
    /\ positionInSamples' = positionInSamples + numSamples
    /\ engine' = NoEngine
    /\ pc' = "scheduled"
    /\ UNCHANGED << table, sampleRate, bpm, samplesPerBeat, pluginPrepared,
                    deviceRunning, reportedRate, numCallbacks, delivered, cycleStart,
                    noteOnCount, noteOffCount, remembered, stream, app >>

\* Lines 49-94: the beats of the block are taken from positionInSamples and the
\* matching events go into midiBuffer.
CallbackSchedule(numSamples) ==
    /\ pc = "idle"
    /\ deviceRunning
    /\ numCallbacks < MaxCallbacks
    /\ positionInSamples + numSamples <= MaxPosition
    /\ \E sched \in {Schedule(table, positionInSamples, numSamples, samplesPerBeat)} :
           /\ midiBuffer' = sched.midi
           /\ block' = [position |-> positionInSamples,
                        numSamples |-> numSamples,
                        samplesPerBeat |-> samplesPerBeat,
                        rate |-> reportedRate,
                        dropped |-> sched.dropped,
                        prepared |-> pluginPrepared,
                        processBlockCalls |-> 0,
                        positionAtProcess |-> 0]
    /\ engine' = NoEngine
    /\ pc' = "scheduled"
    /\ UNCHANGED << table, positionInSamples, sampleRate, bpm, samplesPerBeat,
                    pluginPrepared, deviceRunning, reportedRate, numCallbacks, delivered,
                    cycleStart, noteOnCount, noteOffCount, remembered, stream, app >>

\* Lines 96-99: a buffer of numSamples samples per channel is cleared and
\* plugin->processBlock is given it and midiBuffer.
CallbackProcessBlock ==
    /\ pc = "scheduled"
    /\ engine' = [calls |-> engine.calls + 1, midi |-> midiBuffer,
                  bufferSamples |-> block.numSamples, bufferCleared |-> TRUE,
                  position |-> positionInSamples]
    /\ block' = [block EXCEPT !.processBlockCalls = @ + 1,
                              !.positionAtProcess = positionInSamples]
    /\ pc' = "processed"
    /\ UNCHANGED << table, positionInSamples, sampleRate, bpm, samplesPerBeat,
                    pluginPrepared, deviceRunning, reportedRate, midiBuffer,
                    numCallbacks, delivered, cycleStart, noteOnCount, noteOffCount,
                    remembered, stream, app >>

\* Lines 101-107: the rendered buffer is copied out and the position advanced.
CallbackAdvance ==
    /\ pc = "processed"
    /\ positionInSamples' = AdvancePosition(positionInSamples, block.numSamples)
    /\ numCallbacks' = numCallbacks + 1
    /\ delivered' = delivered + block.numSamples
    /\ pc' = "idle"
    /\ UNCHANGED << table, sampleRate, bpm, samplesPerBeat, pluginPrepared,
                    deviceRunning, reportedRate, midiBuffer, block, cycleStart,
                    noteOnCount, noteOffCount, engine, remembered, stream, app >>

\* the callback as the device makes it, nothing else observed
BufferCallback(numSamples) ==
    /\ AudioDeviceIOCallbackWithContext(numSamples)
    /\ UNCHANGED others

Next ==
    \/ \E numSamples \in BufferSizes : BufferCallback(numSamples)
    \/ \E rate \in SampleRates : AudioDeviceAboutToStart(rate)
    \/ AudioDeviceStopped

Spec == Init /\ [][Next]_vars

\* The callback over every table of one note that starts inside the loop, at
\* the rate the host is constructed for.
InitNotes ==
    /\ \E startHalves \in 0..(2 * loopLength - 1), durationHalves \in 1..MaxDurationHalves :
          InitHost(<< Note(60, startHalves, durationHalves, 8) >>)
    /\ app = AppRunning

NextNotes ==
    \/ \E numSamples \in NoteBufferSizes : BufferCallback(numSamples)
    \/ AudioDeviceAboutToStart(44100)

SpecNotes == InitNotes /\ [][NextNotes]_vars

\* The callback over tables of two notes of one pitch and one velocity, whose
\* starts and durations may be equal: the table is iterated entry by entry
\* (lines 62-94) whatever the entries hold.
PairStartHalves == {0, 1, 3}
PairDurationHalves == {1, 2}

InitPairs ==
    /\ \E s1 \in PairStartHalves, s2 \in PairStartHalves,
          d1 \in PairDurationHalves, d2 \in PairDurationHalves :
          InitHost(<< Note(60, s1, d1, 8), Note(60, s2, d2, 8) >>)
    /\ app = AppRunning

NextPairs ==
    \/ \E numSamples \in NoteBufferSizes : BufferCallback(numSamples)
    \/ AudioDeviceAboutToStart(44100)

SpecPairs == InitPairs /\ [][NextPairs]_vars

\* ------------------------------------------------------------------------
\* The events dispatched over successive buffers
\* ------------------------------------------------------------------------

\* The plugin receives one event at stream sample at: a NoteOn starts its note
\* and, when no NoteOn of the pitch waits for a NoteOff, starts the wait; a
\* NoteOff ends the wait of its pitch and its own note, and cuts every other
\* sounding note of its pitch.
DispatchEvent(st, ev, at) ==
    IF ev.kind = "noteOn"
    THEN [st EXCEPT
            !.sounding = @ \cup {ev.note},
            !.pending = IF \E r \in @ : r.pitch = ev.pitch THEN @
                        ELSE @ \cup {[pitch |-> ev.pitch, since |-> at]}]
    ELSE [st EXCEPT
            !.cut = @ \cup {<<i, ev.note>> : i \in {j \in st.sounding :
                                 j # ev.note /\ table[j].pitch = ev.pitch}},
            !.sounding = @ \ {ev.note},
            !.pending = {r \in @ : r.pitch # ev.pitch}]

\* the queue of one buffer dispatched in queue order, from event k on
RECURSIVE DispatchFrom(_, _, _, _)
DispatchFrom(st, midi, k, position) ==
    IF k > Len(midi) THEN st
    ELSE DispatchFrom(DispatchEvent(st, midi[k], position + midi[k].sampleOffset),
                      midi, k + 1, position)

\* The callback with its events followed into the stream; one callback may be
\* kept (keep) to be compared with later ones.  No loop cycle is counted here.
PlayCallback(numSamples) ==
    /\ AudioDeviceIOCallbackWithContext(numSamples)
    /\ cycleStart' = -1
    /\ stream' = DispatchFrom(stream, midiBuffer', 1, positionInSamples)
    /\ \E keep \in BOOLEAN :
          /\ keep => remembered = NoneRemembered
          /\ remembered' = IF keep
                           THEN [position |-> positionInSamples, numSamples |-> numSamples,
                                 samplesPerBeat |-> samplesPerBeat, midi |-> midiBuffer']
                           ELSE remembered
    /\ UNCHANGED << pc, app >>

\* buffers shorter than one loop cycle
ShortBufferSizes == {512, 11000, 98738}

\* Playback at the one rate the host is constructed for, the device stopping
\* and starting again in between.
NextPlay ==
    \/ \E numSamples \in ShortBufferSizes : PlayCallback(numSamples)
    \/ AudioDeviceAboutToStart(44100)
    \/ AudioDeviceStopped

SpecPlay == Init /\ [][NextPlay]_vars

\* buffers delivered to the callback taken step by step
StepBufferSizes == {512, 11000, 98738}

\* The callback in its steps.  The device manager delivers the lifecycle
\* notifications between callbacks, never during one.
StartBetweenCallbacks(rate) == pc = "idle" /\ AudioDeviceAboutToStart(rate)

StopBetweenCallbacks == pc = "idle" /\ AudioDeviceStopped

NextSteps ==
    \/ \E numSamples \in StepBufferSizes : CallbackSchedule(numSamples)
    \/ CallbackProcessBlock
    \/ CallbackAdvance
    \/ \E rate \in SampleRates : StartBetweenCallbacks(rate)
    \/ StopBetweenCallbacks

SpecSteps == Init /\ [][NextSteps]_vars

\* ------------------------------------------------------------------------
\* MyHostApp: initialise and shutdown around the host
\* ------------------------------------------------------------------------

\* MyHostApp as constructed: nothing owned, initialise not yet entered
AppConstructed == [pc |-> "findAllTypesForFile", plugin |-> FALSE, host |-> FALSE,
                   window |-> FALSE, registered |-> FALSE, deviceOpen |-> FALSE,
                   failed |-> FALSE, released |-> <<>>]

\* the steps of shutdown, lines 211-214
ShutdownOrder == << "removeAudioCallback", "window", "host", "plugin" >>

\* lines 171-181: no description found: alert, quit() and return, after which
\* the application shuts down
FindAllTypesForFile ==
    /\ app.pc = "findAllTypesForFile"
    /\ \E descsEmpty \in BOOLEAN :
          app' = IF descsEmpty
                 THEN [app EXCEPT !.failed = TRUE, !.pc = "shutdown"]
                 ELSE [app EXCEPT !.pc = "createPluginInstance"]
    /\ UNCHANGED << hostVars, pc, remembered, stream >>

\* lines 184-195 gone wrong: the plugin is not tested after its creation
CreatePluginInstanceUntested ==
    /\ app.pc = "createPluginInstance"
    /\ \E loaded \in BOOLEAN :
          app' = [app EXCEPT !.plugin = loaded, !.failed = ~loaded,
                             !.pc = "initialiseWithDefaultDevices"]
    /\ UNCHANGED << hostVars, pc, remembered, stream >>

\* lines 184-195: no plugin created: alert, quit() and return
CreatePluginInstance ==
    /\ app.pc = "createPluginInstance"
    /\ \E loaded \in BOOLEAN :
          app' = IF loaded
                 THEN [app EXCEPT !.plugin = TRUE, !.pc = "initialiseWithDefaultDevices"]
                 ELSE [app EXCEPT !.failed = TRUE, !.pc = "shutdown"]
    /\ UNCHANGED << hostVars, pc, remembered, stream >>

\* line 198: a device is opened or none is
InitialiseWithDefaultDevices ==
    /\ app.pc = "initialiseWithDefaultDevices"
    /\ \E opened \in BOOLEAN :
          app' = [app EXCEPT !.deviceOpen = opened, !.pc = "makeHost"]
    /\ UNCHANGED << hostVars, pc, remembered, stream >>

\* line 199: the host is made of the plugin at 44100 Hz
MakeHost ==
    /\ app.pc = "makeHost"
    /\ app' = [app EXCEPT !.host = TRUE, !.pc = "addAudioCallback"]
    /\ UNCHANGED << hostVars, pc, remembered, stream >>

\* line 200
AddAudioCallback ==
    /\ app.pc = "addAudioCallback"
    /\ app' = [app EXCEPT !.registered = app.host, !.pc = "createEditor"]
    /\ UNCHANGED << hostVars, pc, remembered, stream >>

\* lines 203-206: a window is made when the plugin has an editor
CreateEditor ==
    /\ app.pc = "createEditor"
    /\ \E editor \in BOOLEAN :
          app' = [app EXCEPT !.window = editor, !.pc = "running"]
    /\ UNCHANGED << hostVars, pc, remembered, stream >>

\* lines 217-220
SystemRequestedQuit ==
    /\ app.pc = "running"
    /\ app' = [app EXCEPT !.pc = "shutdown"]
    /\ UNCHANGED << hostVars, pc, remembered, stream >>

\* line 211: removeAudioCallback(host.get()), of a null host on the failure
\* paths; a callback removed from a running device is told that it stopped
\* (lines 117-120)
RemoveAudioCallback ==
    /\ app.pc = "shutdown"
    /\ app' = [app EXCEPT !.registered = FALSE,
                          !.released = Append(@, "removeAudioCallback"),
                          !.pc = "window.reset"]
    /\ deviceRunning' = FALSE
    /\ pluginPrepared' = IF app.registered /\ deviceRunning THEN FALSE ELSE pluginPrepared
    /\ UNCHANGED << table, positionInSamples, sampleRate, bpm, samplesPerBeat,
                    reportedRate, midiBuffer, block, numCallbacks, delivered,
                    cycleStart, noteOnCount, noteOffCount, engine, pc, remembered,
                    stream >>

\* line 212
ResetWindow ==
    /\ app.pc = "window.reset"
    /\ app' = [app EXCEPT !.window = FALSE, !.released = Append(@, "window"),
                          !.pc = "host.reset"]
    /\ UNCHANGED << hostVars, pc, remembered, stream >>

\* line 213
ResetHost ==
    /\ app.pc = "host.reset"
    /\ app' = [app EXCEPT !.host = FALSE, !.released = Append(@, "host"),
                          !.pc = "plugin.reset"]
    /\ UNCHANGED << hostVars, pc, remembered, stream >>

\* line 214
ResetPlugin ==
    /\ app.pc = "plugin.reset"
    /\ app' = [app EXCEPT !.plugin = FALSE, !.released = Append(@, "plugin"),
                          !.pc = "done"]
    /\ UNCHANGED << hostVars, pc, remembered, stream >>

\* the device notifies and calls the callback registered with it
RegisteredAboutToStart(rate) ==
    /\ app.registered
    /\ app.deviceOpen
    /\ AudioDeviceAboutToStart(rate)

RegisteredStopped ==
    /\ app.registered
    /\ AudioDeviceStopped

AppBufferSizes == {512, 98738}

RegisteredCallback(numSamples) ==
    /\ app.registered
    /\ BufferCallback(numSamples)

InitApp == InitHost(melody) /\ app = AppConstructed

NextApp ==
    \/ FindAllTypesForFile
    \/ CreatePluginInstance
    \/ InitialiseWithDefaultDevices
    \/ MakeHost
    \/ AddAudioCallback
    \/ CreateEditor
    \/ SystemRequestedQuit
    \/ RemoveAudioCallback
    \/ ResetWindow
    \/ ResetHost
    \/ ResetPlugin
    \/ \E rate \in SampleRates : RegisteredAboutToStart(rate)
    \/ RegisteredStopped
    \/ \E numSamples \in AppBufferSizes : RegisteredCallback(numSamples)

SpecApp == InitApp /\ [][NextApp]_vars

\* ------------------------------------------------------------------------
\* Properties
\* ------------------------------------------------------------------------

Queued == 1..Len(midiBuffer)

\* the latest callback queued an event of this kind for note i
HasEvent(kind, i) ==
    \E k \in Queued : midiBuffer[k].kind = kind /\ midiBuffer[k].note = i

\* the cyclic beat window of the latest callback
blockLoopStart == LoopStartBeat(block.position, block.samplesPerBeat)
blockLoopEnd == LoopEndBeat(block.position, block.numSamples, block.samplesPerBeat)

\* the observed contiguous callbacks sum to exactly one loop cycle
CycleComplete ==
    /\ cycleStart # -1
    /\ positionInSamples - cycleStart = LoopSamples(samplesPerBeat)

EachOnce ==
    \A i \in 1..Len(table) : noteOnCount[i] = 1 /\ noteOffCount[i] = 1

\* C1: over contiguous callbacks of any positive sizes that sum to exactly one
\* loop cycle, every note's NoteOn and NoteOff are queued exactly once.
C1_OnceOverAnyCycle == CycleComplete => EachOnce

\* What the callback does guarantee: the cycles that lose their events are
\* those delivered as one buffer of a whole loop, whose beat window starts and
\* ends at the same beat and is taken to be empty.
OnceOverCycleOfShortBuffers ==
    (CycleComplete /\ block.numSamples < LoopSamples(samplesPerBeat)) => EachOnce

\* C2: when the beat window of a buffer straddles the loop boundary
\* (loopEndBeat < loopStartBeat), a NoteOn is queued for every note whose
\* startBeat is in [loopStartBeat, loopLength) or [0, loopEndBeat) and for no
\* note whose startBeat is in [loopEndBeat, loopStartBeat).
C2_WrapTriggers ==
    (numCallbacks > 0 /\ DLess(blockLoopEnd, blockLoopStart)) =>
        \A i \in 1..Len(table) :
            /\ (DGeq(table[i].startBeat, blockLoopStart) \/ DLess(table[i].startBeat, blockLoopEnd))
                  => HasEvent("noteOn", i)
            /\ (DGeq(table[i].startBeat, blockLoopEnd) /\ DLess(table[i].startBeat, blockLoopStart))
                  => ~HasEvent("noteOn", i)

C2_Witness ==
    /\ numCallbacks > 0
    /\ DLess(blockLoopEnd, blockLoopStart)
    /\ \E i \in 1..Len(table) : DGeq(table[i].startBeat, blockLoopStart) /\ HasEvent("noteOn", i)
    /\ \E i \in 1..Len(table) : DLess(table[i].startBeat, blockLoopEnd) /\ HasEvent("noteOn", i)
    /\ \E i \in 1..Len(table) : ~HasEvent("noteOn", i)

\* C3: every queued event has 0 <= offset < numSamples, only events whose
\* computed offset is outside that range are dropped, and the callback
\* completes: the engine is invoked and the position advanced.
C3_OffsetsInBuffer ==
    numCallbacks > 0 =>
        /\ \A k \in Queued :
              0 <= midiBuffer[k].sampleOffset /\ midiBuffer[k].sampleOffset < block.numSamples
        /\ \A d \in 1..Len(block.dropped) :
              block.dropped[d] < 0 \/ block.dropped[d] >= block.numSamples
        /\ block.processBlockCalls = 1
        /\ positionInSamples = block.position + block.numSamples

C3_Witness ==
    /\ numCallbacks > 0
    /\ \E k \in Queued : midiBuffer[k].sampleOffset = 0
    /\ \E k \in Queued : midiBuffer[k].sampleOffset > block.numSamples - 600
    /\ positionInSamples = block.position + block.numSamples

\* the beat of a queued event
EventBeat(ev) ==
    IF ev.kind = "noteOn" THEN table[ev.note].startBeat ELSE NoteOffBeat(table[ev.note])

\* the event's sample position within the loop, eventBeat * samplesPerBeat, in
\* integers: the beat is a whole number of halves and samplesPerBeat is even
EventSample(ev, spb) == (DToInt(DMul(EventBeat(ev), 2)) * spb) \div 2

\* the event's sample position minus that of the buffer start, both within
\* the loop, plus one loop when negative
WrapDifference(difference, loop) ==
    IF difference < 0 THEN difference + loop ELSE difference

ExactOffset(ev, position, spb) ==
    WrapDifference(EventSample(ev, spb) - (position % LoopSamples(spb)), LoopSamples(spb))

\* the 512-sample buffer at position 11000 with 22050 samples per beat
Scenario11000 ==
    /\ numCallbacks > 0
    /\ block.position = 11000
    /\ block.numSamples = 512
    /\ block.samplesPerBeat = 22050

NoteOff60At25 ==
    \E k \in Queued : /\ midiBuffer[k].kind = "noteOff"
                      /\ midiBuffer[k].pitch = 60
                      /\ midiBuffer[k].sampleOffset = 25

\* C5 as stated: every queued event's offset equals the exact difference of
\* sample positions, and the buffer at 11000 queues NoteOff(60) at offset 25.
C5_OffsetExact ==
    /\ \A k \in Queued :
          midiBuffer[k].sampleOffset
             = ExactOffset(midiBuffer[k], block.position, block.samplesPerBeat)
    /\ (Scenario11000 => NoteOff60At25)

\* C5 amended: every queued event's offset equals the exact difference of
\* sample positions or is one sample less, and the buffer at 11000 queues
\* NoteOff(60) at offset 25.
C5_OffsetExactOrOneLess ==
    /\ \A k \in Queued :
          \/ midiBuffer[k].sampleOffset
                = ExactOffset(midiBuffer[k], block.position, block.samplesPerBeat)
          \/ midiBuffer[k].sampleOffset
                = ExactOffset(midiBuffer[k], block.position, block.samplesPerBeat) - 1
    /\ (Scenario11000 => NoteOff60At25)

C5_Witness == Scenario11000 /\ NoteOff60At25

\* C6: the first callback, a 512-sample buffer at position 0 with 22050
\* samples per beat, queues NoteOn(60) at offset 0 and no NoteOff.
C6_FirstBufferNoNoteOff ==
    (numCallbacks > 0 /\ block.position = 0 /\ block.numSamples = 512
        /\ block.samplesPerBeat = 22050) =>
        /\ \E k \in Queued : /\ midiBuffer[k].kind = "noteOn"
                             /\ midiBuffer[k].pitch = 60
                             /\ midiBuffer[k].sampleOffset = 0
        /\ \A k \in Queued : midiBuffer[k].kind # "noteOff"

\* a NoteOn at k and a NoteOff at l of different pitches at one sample offset
TiedOnOff(k, l) ==
    /\ midiBuffer[k].kind = "noteOn"
    /\ midiBuffer[l].kind = "noteOff"
    /\ midiBuffer[k].pitch # midiBuffer[l].pitch
    /\ midiBuffer[k].sampleOffset = midiBuffer[l].sampleOffset

\* C7 as stated: a NoteOn and a NoteOff of different pitches at the same
\* sample offset are queued NoteOn first.
C7_NoteOnFirst ==
    \A k, l \in Queued : TiedOnOff(k, l) => k < l

\* C7 amended: a NoteOn and a NoteOff of different pitches at the same sample
\* offset are queued in the order of their notes in the event table.
C7_TieInTableOrder ==
    \A k, l \in Queued : TiedOnOff(k, l) => ((k < l) <=> (midiBuffer[k].note < midiBuffer[l].note))

C7_Witness ==
    \E k, l \in Queued : TiedOnOff(k, l) /\ l < k /\ midiBuffer[l].note < midiBuffer[k].note

\* event k is inserted by the loop over the table before event l
InsertedBefore(k, l) ==
    \/ midiBuffer[k].note < midiBuffer[l].note
    \/ /\ midiBuffer[k].note = midiBuffer[l].note
       /\ midiBuffer[k].kind = "noteOn"
       /\ midiBuffer[l].kind = "noteOff"

\* C8: the queue handed to the engine is in non-decreasing sample-offset
\* order, events of equal offset in the order the loop inserted them.
C8_QueueOrdered ==
    \A k, l \in Queued :
        k < l => /\ midiBuffer[k].sampleOffset <= midiBuffer[l].sampleOffset
                 /\ (midiBuffer[k].sampleOffset = midiBuffer[l].sampleOffset)
                       => InsertedBefore(k, l)

C8_Witness ==
    \E k, l, m \in Queued :
        /\ k < l /\ l < m
        /\ midiBuffer[k].sampleOffset = midiBuffer[l].sampleOffset
        /\ midiBuffer[l].sampleOffset < midiBuffer[m].sampleOffset
        /\ midiBuffer[m].note < midiBuffer[k].note

\* C9: positionInSamples is the sum of numSamples over all callbacks so far,
\* whatever notifications came in between; each callback adds its numSamples
\* once, after scheduling and processing from the position it started at.
C9_PositionIsSamplesDelivered ==
    /\ positionInSamples = delivered
    /\ (numCallbacks = 0) => (positionInSamples = 0)
    /\ (numCallbacks > 0) => /\ positionInSamples = block.position + block.numSamples
                             /\ block.positionAtProcess = block.position

C9_Witness ==
    /\ numCallbacks >= 2
    /\ positionInSamples = delivered
    /\ positionInSamples > block.numSamples
    /\ deviceRunning
    /\ sampleRate # block.rate

\* C10: whenever a buffer callback can start, and in every callback made,
\* samplesPerBeat is sampleRate * 60 / beatsPerMinute for the sample rate the
\* device reported last.
C10_SamplesPerBeatCurrent ==
    /\ deviceRunning => /\ sampleRate = reportedRate
                        /\ samplesPerBeat * bpm = reportedRate * 60
    /\ (numCallbacks > 0) => (block.samplesPerBeat * bpm = block.rate * 60)

C10_Witness ==
    /\ numCallbacks >= 2
    /\ block.rate = 48000
    /\ block.samplesPerBeat = 24000

\* a beat of the table in half beats
Halves(beat) == DToInt(DMul(beat, 2))

\* the note of the scenario: startBeat 4.5, duration 1.0
Scenario45 ==
    /\ Len(table) = 1
    /\ table[1].startBeat = DHalves(9)
    /\ table[1].duration = DHalves(2)

\* C4: for every note with 0 <= startBeat < loopLength and duration > 0 the
\* callback schedules the NoteOff at beat (startBeat + duration) mod
\* loopLength; the note {4.5, 1.0} has its NoteOff at beat 0.5, never in the
\* buffer of its NoteOn.
C4_NoteOffAtBeatModuloLoop ==
    numCallbacks > 0 =>
        /\ \A i \in 1..Len(table) :
              NoteOffBeat(table[i])
                 = DHalves((Halves(table[i].startBeat) + Halves(table[i].duration))
                              % (2 * loopLength))
        /\ Scenario45 => /\ NoteOffBeat(table[1]) = DHalves(1)
                         /\ ~(HasEvent("noteOn", 1) /\ HasEvent("noteOff", 1))

\* the latest callback took its beats from the position it started at and
\* queued the events of that block
ScheduledFromStart ==
    midiBuffer = Schedule(table, block.position, block.numSamples, block.samplesPerBeat).midi

\* the engine was invoked once, with the queue and a cleared buffer of
\* numSamples samples, before the position moved
ProcessedOnce ==
    /\ engine.calls = 1
    /\ block.processBlockCalls = 1
    /\ engine.midi = midiBuffer
    /\ engine.bufferCleared
    /\ engine.bufferSamples = block.numSamples
    /\ engine.position = block.position

\* C11: within a callback the beats are taken from the position not yet
\* advanced, then the matching events are queued, then processBlock is invoked
\* exactly once with that queue and a zeroed buffer of numSamples samples, and
\* only then positionInSamples is advanced by numSamples.
C11_StepsInOrder ==
    /\ (pc = "scheduled") => /\ positionInSamples = block.position
                             /\ ScheduledFromStart
                             /\ engine.calls = 0
    /\ (pc = "processed") => /\ positionInSamples = block.position
                             /\ ScheduledFromStart
                             /\ ProcessedOnce
    /\ (pc = "idle" /\ numCallbacks > 0) =>
                             /\ positionInSamples = block.position + block.numSamples
                             /\ ScheduledFromStart
                             /\ ProcessedOnce

C11_Witness ==
    /\ pc = "processed"
    /\ numCallbacks > 0
    /\ Len(midiBuffer) > 0
    /\ ProcessedOnce
    /\ positionInSamples = block.position

\* the latest callback has the buffer size and samplesPerBeat of the kept one
\* and starts a whole number of loop cycles after it
Shifted ==
    /\ numCallbacks > 0
    /\ remembered.numSamples > 0
    /\ block.numSamples = remembered.numSamples
    /\ block.samplesPerBeat = remembered.samplesPerBeat
    /\ block.position > remembered.position
    /\ (block.position - remembered.position) % LoopSamples(block.samplesPerBeat) = 0

\* the queue of the latest callback is decided by its position, its buffer
\* size and samplesPerBeat alone
DecidedByInputs ==
    numCallbacks > 0 =>
        midiBuffer = Schedule(table, block.position, block.numSamples,
                              block.samplesPerBeat).midi

\* two queues of the same events in the same order
SameEvents(a, b) ==
    /\ Len(a) = Len(b)
    /\ \A k \in 1..Len(a) : /\ a[k].kind = b[k].kind
                             /\ a[k].note = b[k].note
                             /\ a[k].pitch = b[k].pitch
                             /\ a[k].velocity = b[k].velocity

\* the offsets of two queues of the same events differ by at most one sample
OffsetsWithinOne(a, b) ==
    \A k \in 1..Len(a) : /\ a[k].sampleOffset - b[k].sampleOffset <= 1
                          /\ b[k].sampleOffset - a[k].sampleOffset <= 1

\* C12 as stated: the event list of a callback is decided by its inputs alone,
\* and two callbacks whose positions differ by a whole number of loop cycles,
\* with the same numSamples and samplesPerBeat, queue identical lists.
C12_ShiftedSameList ==
    /\ DecidedByInputs
    /\ Shifted => (midiBuffer = remembered.midi)

\* C12 amended: the event list of a callback is decided by its inputs alone,
\* and two callbacks of buffers shorter than a loop whose positions differ by
\* a whole number of loop cycles queue the same events in the same order, at
\* offsets that differ by at most one sample.
C12_ShiftedSameEvents ==
    /\ DecidedByInputs
    /\ (Shifted /\ block.numSamples < LoopSamples(block.samplesPerBeat)) =>
          /\ SameEvents(midiBuffer, remembered.midi)
          /\ OffsetsWithinOne(midiBuffer, remembered.midi)

C12_Witness ==
    /\ Shifted
    /\ Len(midiBuffer) > 0
    /\ SameEvents(midiBuffer, remembered.midi)
    /\ midiBuffer # remembered.midi

\* C13: in the stream of dispatched events no NoteOff of another note of the
\* same pitch comes between a note's NoteOn and that note's own NoteOff.
C13_NotCutShort == stream.cut = {}

\* C15: with buffers shorter than one loop cycle at a constant sample rate, a
\* dispatched NoteOn(p) does not wait for a NoteOff(p) beyond one loop cycle of
\* delivered samples, so as long as buffers keep coming no note stays on.
C15_NoteOffFollows ==
    \A r \in stream.pending :
        positionInSamples - r.since <= LoopSamples(samplesPerBeat)

\* the NoteOff(72) of a NoteOn(72) dispatched in an earlier buffer
C15_Witness ==
    /\ numCallbacks > 1
    /\ \E k \in Queued : midiBuffer[k].kind = "noteOff" /\ midiBuffer[k].pitch = 72
    /\ \A k \in Queued : ~(midiBuffer[k].kind = "noteOn" /\ midiBuffer[k].pitch = 72)
    /\ \A r \in stream.pending : r.pitch # 72

\* the steps of the three handlers
CallbackStep == numCallbacks' = numCallbacks + 1
StartStep == ~deviceRunning /\ deviceRunning'
StopStep == deviceRunning /\ ~deviceRunning'

\* C14: the blockStartBeat of every callback equals the blockEndBeat of the
\* callback before it, also when the device stopped and started at another
\* sample rate in between.
C14_WindowsContiguous ==
    [][(CallbackStep /\ numCallbacks > 0) =>
          BlockStartBeat(block'.position, block'.samplesPerBeat)
             = BlockEndBeat(block.position, block.numSamples, block.samplesPerBeat)]_vars

\* C17: a callback leaves the event table, beatsPerMinute, sampleRate and
\* samplesPerBeat as they were; audioDeviceAboutToStart leaves positionInSamples,
\* the event table and beatsPerMinute as they were; audioDeviceStopped leaves
\* all of them as they were.  (loopLength is a constant of the callback.)
C17_Frame ==
    [][/\ CallbackStep => /\ table' = table
                          /\ bpm' = bpm
                          /\ sampleRate' = sampleRate
                          /\ samplesPerBeat' = samplesPerBeat
       /\ StartStep => /\ positionInSamples' = positionInSamples
                       /\ table' = table
                       /\ bpm' = bpm
       /\ StopStep => /\ positionInSamples' = positionInSamples
                      /\ table' = table
                      /\ bpm' = bpm
                      /\ sampleRate' = sampleRate
                      /\ samplesPerBeat' = samplesPerBeat]_vars

\* callbacks were made, the device started at another rate and stopped
C17_Witness ==
    /\ numCallbacks > 1
    /\ positionInSamples > 0
    /\ sampleRate = 48000
    /\ block.rate = 48000
    /\ ~deviceRunning

\* the beat of the on or off event of note i, lines 68 and 81-82
BeatOfPair(tbl, i, kind) ==
    IF kind = "noteOn" THEN tbl[i].startBeat ELSE NoteOffBeat(tbl[i])

\* the (note, kind) pairs that pass the window test and the offset test in a
\* buffer of numSamples samples at position
PairsPassed(tbl, position, numSamples, spb) ==
    LET loopStartBeat == LoopStartBeat(position, spb)
        loopEndBeat == LoopEndBeat(position, numSamples, spb)
        wrapped == Wrapped(loopStartBeat, loopEndBeat)
    IN  { pr \in (1..Len(tbl)) \X {"noteOn", "noteOff"} :
            /\ InBlock(BeatOfPair(tbl, pr[1], pr[2]), loopStartBeat, loopEndBeat, wrapped)
            /\ OffsetInBuffer(SampleOffset(BeatOfPair(tbl, pr[1], pr[2]), loopStartBeat,
                                            spb), numSamples) }

\* the events a queue holds for note i of one kind
EventsOf(midi, i, kind) ==
    { k \in 1..Len(midi) : midi[k].note = i /\ midi[k].kind = kind }

\* C18: the queue of a buffer holds one event for every (note, kind) pair that
\* passed the window and offset tests and nothing else, also when two entries
\* of the table have the same pitch and their events fall at the same beat.
C18_OneEventPerPair ==
    numCallbacks > 0 =>
        \E passed \in {PairsPassed(table, block.position, block.numSamples,
                                    block.samplesPerBeat)} :
            /\ Len(midiBuffer) = Cardinality(passed)
            /\ \A pr \in (1..Len(table)) \X {"noteOn", "noteOff"} :
                  Cardinality(EventsOf(midiBuffer, pr[1], pr[2])) =
                      IF pr \in passed THEN 1 ELSE 0

\* two entries of one pitch put their events of one kind at the same sample
\* position of one queue
C18_Witness ==
    /\ numCallbacks > 0
    /\ \E k \in 1..Len(midiBuffer), m \in 1..Len(midiBuffer) :
          /\ k < m
          /\ midiBuffer[k].note # midiBuffer[m].note
          /\ midiBuffer[k].kind = midiBuffer[m].kind
          /\ midiBuffer[k].pitch = midiBuffer[m].pitch
          /\ midiBuffer[k].velocity = midiBuffer[m].velocity
          /\ midiBuffer[k].sampleOffset = midiBuffer[m].sampleOffset

\* C19: the host is registered with the device only while it and the plugin
\* exist, and is driven by the device only while registered; no failure path
\* of initialise registers it; shutdown removes the callback first and then
\* releases the window, the host and the plugin, in that order.
C19_RegisteredWhileBothExist ==
    /\ app.registered => app.plugin /\ app.host
    /\ deviceRunning => app.registered
    /\ app.failed => ~app.registered /\ ~app.host
    /\ Len(app.released) <= Len(ShutdownOrder)
    /\ \A k \in 1..Len(app.released) : app.released[k] = ShutdownOrder[k]
    /\ app.released # <<>> => ~app.registered
    /\ app.host => app.plugin

\* initialise went through, the device called the host, shutdown ran to its end
C19_Witness ==
    /\ app.pc = "done"
    /\ ~app.failed
    /\ numCallbacks > 0
    /\ app.released = ShutdownOrder
    /\ ~app.registered /\ ~app.window /\ ~app.host /\ ~app.plugin

====
